---- MODULE Spec2Model ----
(***************************************************************************)
(* The community statechart (src/unnamed/part_000) and the guards, actions *)
(* and services of the member statechart                                   *)
(* (src/src/routes/members/machines/member.js), run by the xstate v4       *)
(* interpreter.  One TLA+ step is one macrostep of the interpreter: an     *)
(* external event or a settled service promise is processed to completion, *)
(* eventless transitions and entry/exit actions included.                  *)
(* Events are sent once the interpreter has been started; a service        *)
(* promise settles at any later time, also after its invoking state was    *)
(* left or the interpreter stopped.                                        *)
(***************************************************************************)
EXTENDS Naturals, Sequences, FiniteSets

\* Bounds of the model.
MaxInvocations == 5     \* service invocations started by one interpreter

Ids == {"c1", "c2"}
Entities == [id : Ids]
\* null and undefined, where an entity is expected, and where an actor is
Null == [id |-> "null"]
Undefined == [id |-> "undefined"]
UndefinedActor == [machine |-> "undefined", community |-> Undefined]

Slugs == {"", "acme-co"}
\* what queryMyFollowing resolves to: the lists of distinct ids
FollowingLists ==
  {l \in UNION {[1..n -> Ids] : n \in 0..Cardinality(Ids)} :
     \A i, j \in DOMAIN l : i # j => l[i] # l[j]}
InvokeIds == {"queryCommunity", "queryMyFollowing", "toggleFollow"}

VARIABLES
  value,      \* active state configuration: path of state ids from the top to the leaf
  context,    \* the machine's context
  status,     \* of the interpreter: "notStarted", "running", "stopped"
  children,   \* invoke id -> the promise registered for it (0: none)
  promises,   \* every service promise started so far
  pending,    \* the promises that have not settled yet
  spawned,    \* the child actors spawned so far
  navigated,  \* calls of navigateTo('/not-found')
  logged,     \* calls of log(...)
  refreshes,  \* the REFRESH events sent, by target
  refreshSeen,\* context.isFollowing as it was when each REFRESH was sent
  failed,     \* the services whose rejection the machine has received
  lastEvent   \* the event last handed to the interpreter

vars == <<value, context, status, children, promises, pending, spawned,
          navigated, logged, refreshes, refreshSeen, failed, lastEvent>>

\* The interpreter's state as one record, so that a macrostep is a function.
Cur ==
  [value |-> value, context |-> context, status |-> status, children |-> children,
   promises |-> promises, pending |-> pending, spawned |-> spawned,
   navigated |-> navigated, logged |-> logged, refreshes |-> refreshes,
   refreshSeen |-> refreshSeen]

Install(M) ==
  /\ value' = M.value
  /\ context' = M.context
  /\ status' = M.status
  /\ children' = M.children
  /\ promises' = M.promises
  /\ pending' = M.pending
  /\ spawned' = M.spawned
  /\ navigated' = M.navigated
  /\ logged' = M.logged
  /\ refreshes' = M.refreshes
  /\ refreshSeen' = M.refreshSeen

\* The state paths.
validating == <<"validating">>
loading == <<"loading">>
notFound == <<"notFound">>
error == <<"error">>
communityLoaded == <<"communityLoaded">>
unknown == <<"communityLoaded", "unknown">>
unAuthenticated == <<"communityLoaded", "unAuthenticated">>
authenticated == <<"communityLoaded", "authenticated">>
loadFollowing == <<"communityLoaded", "authenticated", "loadFollowing">>
toggleFollow == <<"communityLoaded", "authenticated", "toggleFollow">>
loaded == <<"communityLoaded", "authenticated", "loaded">>
authError == <<"communityLoaded", "authenticated", "error">>

\* node is active in configuration v
Active(v, node) ==
  /\ Len(node) <= Len(v)
  /\ \A i \in 1..Len(node) : v[i] = node[i]

----------------------------------------------------------------------------
\* Guards.

isValidSlug(ctx) == ctx.slug # ""
communityFound(data) == data # Null
communityNotFound(data) == data = Null
isAuthenticated(ctx) == ctx.isAuthenticated
isUnAuthenticated(ctx) == ctx.isAuthenticated

----------------------------------------------------------------------------
\* Services: what each is called with.

services(id, ctx) ==
  CASE id = "queryCommunity" -> ctx.slug
    [] id = "queryMyFollowing" -> "undefined"
    [] id = "toggleFollow" -> ctx.community.id

\* An invoked promise is registered as a child under its invoke id.
StartInvoke(M, id) ==
  LET n == Len(M.promises) + 1 IN
  [M EXCEPT !.promises = Append(@, [src |-> id, arg |-> services(id, M.context),
                                    canceled |-> FALSE]),
            !.pending = @ \cup {n},
            !.children = [@ EXCEPT ![id] = n]]

\* Stopping a child cancels its promise: its completion will not be sent.
StopInvoke(M, id) ==
  IF M.children[id] = 0 THEN M
  ELSE [M EXCEPT !.promises = [@ EXCEPT ![M.children[id]].canceled = TRUE],
                 !.children = [@ EXCEPT ![id] = 0]]

\* The interpreter stops when a top-level final state is reached.
StopInterpreter(M) ==
  [M EXCEPT !.status = "stopped",
            !.promises = [p \in DOMAIN @ |->
                            IF \E id \in InvokeIds : M.children[id] = p
                            THEN [@[p] EXCEPT !.canceled = TRUE] ELSE @[p]],
            !.children = [id \in InvokeIds |-> 0]]

Finish(M) ==
  IF M.value \in {notFound, error} THEN StopInterpreter(M) ELSE M

----------------------------------------------------------------------------
\* Actions.

logError(M) == [M EXCEPT !.logged = @ + 1]
navigateNotFound(M) == [M EXCEPT !.navigated = @ + 1]
refreshFollowers_ToActivities(M) ==
  [M EXCEPT !.refreshes = Append(@, M.context.activitiesMachineServices),
            !.refreshSeen = Append(@, M.context.isFollowing)]
refreshFollowers(M) ==
  [M EXCEPT !.refreshes = Append(@, M.context.followMachineServices),
            !.refreshSeen = Append(@, M.context.isFollowing)]
setIsAuthenticated(M, event) ==
  [M EXCEPT !.context.isAuthenticated = event.status]
queryCommunitySuccess(M, event) ==
  [M EXCEPT !.context.community = event.data]
Includes(list, x) == \E i \in DOMAIN list : list[i] = x
queryMyFollowingSuccess_First(M, event) ==
  [M EXCEPT !.context.isFollowing =
     Len(event.data) > 0 /\ event.data[1] = M.context.community.id]
queryMyFollowingSuccess(M, event) ==
  [M EXCEPT !.context.isFollowing = Includes(event.data, M.context.community.id)]
toggleFollowSuccess(M, event) ==
  [M EXCEPT !.context.isFollowing = event.data]
createFollowMachineServices(M) ==
  LET ref == [machine |-> "followers", community |-> M.context.community] IN
  [M EXCEPT !.context.followMachineServices = ref, !.spawned = Append(@, ref)]
createActivityMachineServices_Unregistered(M) == M
createActivityMachineServices(M) ==
  LET ref == [machine |-> "activities", community |-> M.context.community] IN
  [M EXCEPT !.context.activitiesMachineServices = ref, !.spawned = Append(@, ref)]

----------------------------------------------------------------------------
\* Entering and leaving the states.

Enter_loading(M) == StartInvoke([M EXCEPT !.value = loading], "queryCommunity")
Exit_loading(M) == StopInvoke(M, "queryCommunity")
Enter_notFound(M) == navigateNotFound([M EXCEPT !.value = notFound])
Enter_error(M) == logError([M EXCEPT !.value = error])
Enter_loadFollowing(M) ==
  StartInvoke([M EXCEPT !.value = loadFollowing], "queryMyFollowing")
Exit_loadFollowing_Detached(M) == M
Exit_loadFollowing(M) == StopInvoke(M, "queryMyFollowing")
Enter_toggleFollow(M) ==
  StartInvoke([M EXCEPT !.value = toggleFollow], "toggleFollow")
Exit_toggleFollow_Detached(M) == M
Exit_toggleFollow(M) == StopInvoke(M, "toggleFollow")
Enter_loaded(M) == [M EXCEPT !.value = loaded]
Enter_authError(M) == logError([M EXCEPT !.value = authError])
Enter_unAuthenticated(M) == [M EXCEPT !.value = unAuthenticated]
\* authenticated: initial 'loadFollowing'
Enter_authenticated(M) == Enter_loadFollowing(M)

\* Leaving whatever substate of communityLoaded.authenticated is active.
Exit_authenticatedChild(M) ==
  CASE M.value = loadFollowing -> Exit_loadFollowing(M)
    [] M.value = toggleFollow -> Exit_toggleFollow(M)
    [] OTHER -> M

----------------------------------------------------------------------------
\* Transitions.

\* validating: on ''
validating_always_Unguarded(M) == Enter_loading(M)
validating_always(M) ==
  IF isValidSlug(M.context) THEN Enter_loading(M) ELSE Enter_notFound(M)

\* communityLoaded.unknown: on ''
unknown_always(M) ==
  IF isAuthenticated(M.context) THEN Enter_authenticated(M)
  ELSE IF isUnAuthenticated(M.context) THEN Enter_unAuthenticated(M)
  ELSE M

\* communityLoaded: initial 'unknown'
Enter_communityLoaded(M) == unknown_always([M EXCEPT !.value = unknown])

\* loading.invoke.onDone
loading_onDone_SpawnFirst(M, event) ==
  IF communityFound(event.data)
  THEN Enter_communityLoaded(
         queryCommunitySuccess(
           createActivityMachineServices(
             createFollowMachineServices(Exit_loading(M))), event))
  ELSE IF communityNotFound(event.data)
  THEN Enter_notFound(Exit_loading(M))
  ELSE M
loading_onDone(M, event) ==
  IF communityFound(event.data)
  THEN Enter_communityLoaded(
         createActivityMachineServices(
           createFollowMachineServices(
             queryCommunitySuccess(Exit_loading(M), event))))
  ELSE IF communityNotFound(event.data)
  THEN Enter_notFound(Exit_loading(M))
  ELSE M

\* loading.invoke.onError
loading_onError(M) == Enter_error(Exit_loading(M))

\* the machine's on.AUTHENTICATED
root_AUTHENTICATED_Reentering(M, event) ==
  IF M.value = loading THEN Enter_loading(Exit_loading(setIsAuthenticated(M, event)))
  ELSE setIsAuthenticated(M, event)
root_AUTHENTICATED_Ignored(M, event) == M
root_AUTHENTICATED(M, event) == setIsAuthenticated(M, event)

\* communityLoaded.on.AUTHENTICATED: an internal transition to '.unknown'
communityLoaded_AUTHENTICATED_Targetless(M, event) == setIsAuthenticated(M, event)
communityLoaded_AUTHENTICATED_Unresolved(M, event) ==
  [setIsAuthenticated(Exit_authenticatedChild(M), event) EXCEPT !.value = unknown]
communityLoaded_AUTHENTICATED(M, event) ==
  LET left == setIsAuthenticated(Exit_authenticatedChild(M), event) IN
  unknown_always([left EXCEPT !.value = unknown])

\* authenticated.on.FOLLOW: an internal transition to '.toggleFollow'; a child that
\* is already active is neither left nor entered again.
authenticated_FOLLOW(M) ==
  IF M.value = toggleFollow THEN M
  ELSE Enter_toggleFollow(Exit_authenticatedChild(M))

\* loadFollowing.invoke.onDone / onError
loadFollowing_onDone(M, event) ==
  Enter_loaded(queryMyFollowingSuccess(Exit_loadFollowing(M), event))
loadFollowing_onError_Reset(M) ==
  Enter_authError([Exit_loadFollowing(M) EXCEPT !.context.isFollowing = FALSE])
loadFollowing_onError(M) == Enter_authError(Exit_loadFollowing(M))

\* toggleFollow.invoke.onDone / onError
toggleFollow_onDone_NoRefresh(M, event) ==
  Enter_loaded(toggleFollowSuccess(Exit_toggleFollow(M), event))
toggleFollow_onDone(M, event) ==
  Enter_loaded(refreshFollowers(toggleFollowSuccess(Exit_toggleFollow(M), event)))
toggleFollow_onError_Targetless(M) == M
toggleFollow_onError(M) == Enter_authError(Exit_toggleFollow(M))

\* the machine's on: AUTHENTICATED is the only event it handles
root_on_FOLLOWING(M, event) ==
  IF event.type = "AUTHENTICATED" THEN root_AUTHENTICATED(M, event)
  ELSE IF event.type = "FOLLOWING" THEN [M EXCEPT !.context.isFollowing = TRUE]
  ELSE M
root_on(M, event) ==
  IF event.type = "AUTHENTICATED" THEN root_AUTHENTICATED(M, event) ELSE M

\* The transition the active configuration selects for an event, leaf first, then
\* its ancestors up to the machine; an event no active state handles is dropped.
Transition(M, event) ==
  CASE event.type = "FOLLOW" /\ Active(M.value, authenticated) ->
         authenticated_FOLLOW(M)
    [] event.type = "AUTHENTICATED" /\ Active(M.value, communityLoaded) ->
         communityLoaded_AUTHENTICATED(M, event)
    [] event.type = "done.invoke.queryCommunity" /\ M.value = loading ->
         loading_onDone(M, event)
    [] event.type = "error.platform.queryCommunity" /\ M.value = loading ->
         loading_onError(M)
    [] event.type = "done.invoke.queryMyFollowing" /\ M.value = loadFollowing ->
         loadFollowing_onDone(M, event)
    [] event.type = "error.platform.queryMyFollowing" /\ M.value = loadFollowing ->
         loadFollowing_onError(M)
    [] event.type = "done.invoke.toggleFollow" /\ M.value = toggleFollow ->
         toggleFollow_onDone(M, event)
    [] event.type = "error.platform.toggleFollow" /\ M.value = toggleFollow ->
         toggleFollow_onError(M)
    [] OTHER -> root_on(M, event)

\* interpreter.send: a stopped interpreter drops the event.
Send(M, event) ==
  IF M.status = "running" THEN Finish(Transition(M, event)) ELSE M

\* A promise settles: a canceled one is dropped, a live one is unregistered and its
\* completion sent.
Settle(M, p, event) ==
  LET gone == [M EXCEPT !.pending = @ \ {p}] IN
  IF M.promises[p].canceled THEN gone
  ELSE Send([gone EXCEPT !.children = [@ EXCEPT ![M.promises[p].src] = 0]], event)

----------------------------------------------------------------------------
\* The state machine.

DoneData(src) ==
  CASE src = "queryCommunity" -> Entities \cup {Null}
    [] src = "queryMyFollowing" -> FollowingLists
    [] src = "toggleFollow" -> BOOLEAN

\* What lastEvent records of an event: its type, whether the machine received it,
\* and its payload (status of AUTHENTICATED; data of a done event, by its type).
NoEvent ==
  [type |-> "none", delivered |-> FALSE, status |-> FALSE, entity |-> Undefined,
   list |-> <<>>, following |-> FALSE]

Init ==
  /\ value = validating
  /\ context \in [slug : Slugs, community : {Undefined},
                  followMachineServices : {UndefinedActor},
                  activitiesMachineServices : {UndefinedActor},
                  isFollowing : {FALSE}, isAuthenticated : {FALSE}]
  /\ status = "notStarted"
  /\ children = [id \in InvokeIds |-> 0]
  /\ promises = <<>>
  /\ pending = {}
  /\ spawned = <<>>
  /\ navigated = 0
  /\ logged = 0
  /\ refreshes = <<>>
  /\ refreshSeen = <<>>
  /\ failed = {}
  /\ lastEvent = NoEvent

\* interpreter.start()
Start ==
  /\ status = "notStarted"
  /\ Install(Finish(validating_always([Cur EXCEPT !.status = "running"])))
  /\ lastEvent' = [NoEvent EXCEPT !.type = "xstate.init", !.delivered = TRUE]
  /\ UNCHANGED failed

\* send('FOLLOW')
SendFOLLOW ==
  /\ status # "notStarted"
  /\ LET M == Send(Cur, [type |-> "FOLLOW"]) IN
       /\ Len(M.promises) <= MaxInvocations
       /\ Install(M)
  /\ lastEvent' = [NoEvent EXCEPT !.type = "FOLLOW", !.delivered = (status = "running")]
  /\ UNCHANGED failed

\* send('AUTHENTICATED', {status})
SendAUTHENTICATED(s) ==
  /\ status # "notStarted"
  /\ LET M == Send(Cur, [type |-> "AUTHENTICATED", status |-> s]) IN
       /\ Len(M.promises) <= MaxInvocations
       /\ Install(M)
  /\ lastEvent' = [NoEvent EXCEPT !.type = "AUTHENTICATED", !.status = s,
                                   !.delivered = (status = "running")]
  /\ UNCHANGED failed

\* The events the header comment documents without any state handling them
\* (FOLLOWING), and those the machine itself sends to its actors (REFRESH).
OtherEvents == {"FOLLOWING", "REFRESH"}

\* send of an event of OtherEvents
SendOther(type) ==
  /\ status # "notStarted"
  /\ Install(Send(Cur, [type |-> type]))
  /\ lastEvent' = [NoEvent EXCEPT !.type = type, !.delivered = (status = "running")]
  /\ UNCHANGED failed

\* a service promise resolves with data
Resolve(p, data) ==
  /\ p \in pending
  /\ LET type == "done.invoke." \o promises[p].src IN
       /\ Install(Settle(Cur, p, [type |-> type, data |-> data]))
       /\ lastEvent' =
            LET e == [NoEvent EXCEPT !.type = type, !.delivered = ~promises[p].canceled] IN
            CASE promises[p].src = "queryCommunity" -> [e EXCEPT !.entity = data]
              [] promises[p].src = "queryMyFollowing" -> [e EXCEPT !.list = data]
              [] promises[p].src = "toggleFollow" -> [e EXCEPT !.following = data]
  /\ UNCHANGED failed

\* a service promise rejects
Reject(p) ==
  /\ p \in pending
  /\ LET type == "error.platform." \o promises[p].src IN
       /\ Install(Settle(Cur, p, [type |-> type, data |-> "err"]))
       /\ lastEvent' = [NoEvent EXCEPT !.type = type, !.delivered = ~promises[p].canceled]
  /\ failed' = IF promises[p].canceled THEN failed ELSE failed \cup {promises[p].src}

Next ==
  \/ Start
  \/ SendFOLLOW
  \/ \E s \in BOOLEAN : SendAUTHENTICATED(s)
  \/ \E type \in OtherEvents : SendOther(type)
  \/ \E p \in pending : \E data \in DoneData(promises[p].src) : Resolve(p, data)
  \/ \E p \in pending : Reject(p)

Spec == Init /\ [][Next]_vars

TypeOK ==
  /\ status \in {"notStarted", "running", "stopped"}
  /\ Len(promises) <= MaxInvocations
  /\ pending \subseteq DOMAIN promises

----------------------------------------------------------------------------
\* Properties.

\* The state whose invoke starts service src.
InvokerOf(src) ==
  CASE src = "queryCommunity" -> loading
    [] src = "queryMyFollowing" -> loadFollowing
    [] src = "toggleFollow" -> toggleFollow

\* The promises whose completion the interpreter would still receive.
Live == {p \in pending : ~promises[p].canceled}

\* Promise p settles in this step.
Settles(p) == p \in pending /\ p \notin pending'

\* Promise p's invoking state has been left since p was started: another invocation
\* was started since, or the active state is not the invoking one.
Stale(p) == ~(p = Len(promises) /\ value = InvokerOf(promises[p].src))

Received(type) == lastEvent.delivered /\ lastEvent.type = type

\* C1: once queryCommunity has resolved, the machine is in notFound if the data was
\* null, and otherwise in communityLoaded.authenticated if isAuthenticated holds and
\* in communityLoaded.unAuthenticated if it does not (never in unknown).
C1_QueryOutcome ==
  Received("done.invoke.queryCommunity") =>
    IF lastEvent.entity = Null THEN value = notFound
    ELSE IF context.isAuthenticated THEN Active(value, authenticated)
    ELSE value = unAuthenticated

\* What C2 asks of one step.
C2_Step ==
  (lastEvent'.type = "FOLLOW" /\ value # loaded) =>
    UNCHANGED <<value, context, children, promises, pending>>

\* C2: a FOLLOW event delivered in a configuration other than
\* communityLoaded.authenticated.loaded changes neither the configuration nor the
\* context, starts no invocation and abandons none.
C2_FollowElsewhereNoOp == [][C2_Step]_vars

\* What C3 asks of one step.
C3_Step ==
  \A p \in pending :
    (Settles(p) /\ Stale(p)) =>
      UNCHANGED <<value, context, status, spawned, navigated, logged, refreshes>>

\* C3: the completion (success or failure) of a service whose invoking state was
\* left before it settled fires no transition and runs no action: configuration,
\* context (isFollowing included), the REFRESH events sent, the log and navigation
\* calls and the spawned actors are all unchanged.
C3_StaleCompletionIgnored == [][C3_Step]_vars

\* C3 witness: a toggleFollow completion has just been discarded while a later
\* toggleFollow invocation is in flight.
C3_Witness ==
  /\ lastEvent.type = "done.invoke.toggleFollow"
  /\ ~lastEvent.delivered
  /\ value = toggleFollow
  /\ Live # {}

\* What C4 asks of one step.
C4_Step ==
  value \in {notFound, error, authError} => UNCHANGED <<value, context, promises>>

\* C4: once a final state is active (notFound, error or
\* communityLoaded.authenticated.error) no step changes the configuration or the
\* context or starts an invocation.
C4_FinalIsTerminal == [][C4_Step]_vars

\* What C5 asks of one step.
C5_Step ==
  (lastEvent'.type = "AUTHENTICATED"
     /\ (Active(value, authenticated) \/ value = unAuthenticated)) =>
    /\ IF lastEvent'.status THEN Active(value', authenticated)
       ELSE value' = unAuthenticated
    /\ LET once == Send(Cur, [type |-> "AUTHENTICATED", status |-> lastEvent'.status])
           twice == Send(once, [type |-> "AUTHENTICATED", status |-> lastEvent'.status])
       IN twice.value = once.value /\ twice.context = once.context

\* C5: an AUTHENTICATED event with status s delivered in communityLoaded.authenticated
\* or communityLoaded.unAuthenticated settles in authenticated when s is true and in
\* unAuthenticated when s is false, and sending it a second time leaves the same
\* configuration and context as sending it once.
C5_AuthenticatedReevaluates == [][C5_Step]_vars

QueryInvocations == {p \in DOMAIN promises : promises[p].src = "queryCommunity"}

\* C6: with a slug that fails isValidSlug, starting the machine goes from validating
\* straight to the final state notFound, navigating to /not-found once, and no
\* service is invoked then or later.
C6_InvalidSlugNotFound ==
  (~isValidSlug(context) /\ status # "notStarted") =>
    /\ value = notFound
    /\ status = "stopped"
    /\ navigated = 1
    /\ promises = <<>>

\* C6 witness: an invalid slug, the machine started and an event sent to it since.
C6_Witness ==
  /\ ~isValidSlug(context)
  /\ status = "stopped"
  /\ lastEvent.type \in {"FOLLOW", "AUTHENTICATED"}

\* C7: with a slug that passes isValidSlug, starting the machine goes from validating
\* to loading, and exactly one queryCommunity invocation is ever started, whatever
\* events and completions follow.
C7_ValidSlugOneQuery ==
  (isValidSlug(context) /\ status # "notStarted") =>
    /\ lastEvent.type = "xstate.init" => value = loading
    /\ Cardinality(QueryInvocations) = 1
    /\ promises[1].arg = context.slug

\* C7 witness: the query has settled, the machine has gone on to other invocations
\* and has just taken an AUTHENTICATED event.
C7_Witness ==
  /\ isValidSlug(context)
  /\ Len(promises) >= 3
  /\ 1 \notin pending
  /\ lastEvent.type = "AUTHENTICATED"

\* What C8 asks of one step.
C8_Step ==
  (value = toggleFollow /\ lastEvent'.type = "done.invoke.toggleFollow"
     /\ lastEvent'.delivered) =>
    /\ context'.isFollowing = lastEvent'.following
    /\ value' = loaded
    /\ refreshes' = Append(refreshes, context.followMachineServices)
    /\ context.followMachineServices.machine = "followers"
    /\ \A f \in DOMAIN context \ {"isFollowing"} : context'[f] = context[f]

\* C8: when the toggleFollow service of the active toggleFollow state resolves with
\* b, isFollowing becomes b, the machine returns to
\* communityLoaded.authenticated.loaded, and exactly one REFRESH event is sent, to the
\* follow actor held in context.followMachineServices.
C8_ToggleFollowDone == [][C8_Step]_vars

\* C8 witness: queryMyFollowing resolved, FOLLOW was sent in loaded, and toggleFollow
\* has just resolved false: one REFRESH has been sent.
C8_Witness ==
  /\ Received("done.invoke.toggleFollow")
  /\ ~lastEvent.following
  /\ ~context.isFollowing
  /\ value = loaded
  /\ Len(refreshes) = 1
  /\ Len(promises) = 3
  /\ ~promises[2].canceled
  /\ logged = 0

\* What C9 asks of one step.
C9_Step ==
  /\ (lastEvent'.type = "done.invoke.queryCommunity" /\ lastEvent'.delivered
        /\ lastEvent'.entity # Null) =>
       context'.community = lastEvent'.entity
  /\ Active(value, communityLoaded) =>
       (context'.community = context.community /\ context.community \in Entities)
  /\ (lastEvent'.type = "done.invoke.queryMyFollowing" /\ lastEvent'.delivered) =>
       /\ value' = loaded
       /\ context'.isFollowing =
            (context'.community.id \in {lastEvent'.list[i] : i \in DOMAIN lastEvent'.list})

\* C9: the community stored is the entity the query resolved to, it does not change
\* while communityLoaded is active, and when queryMyFollowing resolves to a list L
\* the machine is in communityLoaded.authenticated.loaded with isFollowing true
\* exactly when the community's id is an element of L.
C9_HappyPath == [][C9_Step]_vars

\* C9 witness: queryMyFollowing resolved to c1, c2 for the community c1.
C9_Witness ==
  /\ Received("done.invoke.queryMyFollowing")
  /\ lastEvent.list = <<"c1", "c2">>
  /\ context.community = [id |-> "c1"]
  /\ context.isFollowing
  /\ value = loaded

\* C10: at most one live service invocation exists, it belongs to the active
\* invoking leaf state, and there is none when no invoking state is active.
C10_OneLiveInvocation ==
  /\ Cardinality(Live) <= 1
  /\ \A p \in Live : value = InvokerOf(promises[p].src)
  /\ value \notin {loading, loadFollowing, toggleFollow} => Live = {}

\* C10 witness: toggleFollow is active with its invocation in flight while an
\* abandoned invocation has not settled yet.
C10_Witness ==
  /\ value = toggleFollow
  /\ Cardinality(Live) = 1
  /\ Cardinality(pending) >= 2

\* The promises started in this step.
Started == {p \in DOMAIN promises' : p \notin DOMAIN promises}

\* The final state a rejection of service src leads to.
ErrorStateOf(src) == IF src = "queryCommunity" THEN error ELSE authError

\* What C11 asks of one step.
C11_Step ==
  /\ \A src \in InvokeIds :
       (lastEvent'.type = "error.platform." \o src /\ lastEvent'.delivered) =>
         /\ value' = ErrorStateOf(src)
         /\ logged' = logged + 1
         /\ context' = context
  /\ \A p \in Started : promises'[p].src \notin failed

\* C11: a rejection of queryCommunity moves the machine to the final state error, a
\* rejection of queryMyFollowing or toggleFollow to the final state
\* communityLoaded.authenticated.error; each runs logError once and leaves the
\* context unchanged, and a service that has failed is never invoked again.
C11_FailureHandling == [][C11_Step]_vars

\* What C12 asks of one step.
C12_Step ==
  /\ (value = loading /\ lastEvent'.type = "AUTHENTICATED") =>
       /\ lastEvent'.delivered
       /\ context' = [context EXCEPT !.isAuthenticated = lastEvent'.status]
       /\ value' = loading
       /\ UNCHANGED <<promises, pending, children>>
  /\ (value = loading /\ lastEvent'.type = "done.invoke.queryCommunity"
        /\ lastEvent'.entity # Null) =>
       /\ lastEvent'.delivered
       /\ Active(value', communityLoaded)
       /\ Active(value', authenticated) <=> context.isAuthenticated

\* C12: an AUTHENTICATED event with status s arriving while loading is active sets
\* isAuthenticated to s, stays in loading and neither restarts nor abandons the
\* queryCommunity invocation; the query's later completion is still processed and
\* enters communityLoaded.authenticated exactly when isAuthenticated holds by then.
C12_AuthenticatedWhileLoading == [][C12_Step]_vars

\* C12 witness: isAuthenticated was set while loading, and the query's completion
\* has then taken the machine into communityLoaded.authenticated.
C12_Witness ==
  /\ Received("done.invoke.queryCommunity")
  /\ context.isAuthenticated
  /\ value = loadFollowing
  /\ ~promises[1].canceled

\* What C13 asks of one step.
C13_Step ==
  lastEvent'.type \in OtherEvents =>
    UNCHANGED <<value, context, status, children, promises, pending, spawned,
                navigated, logged, refreshes, refreshSeen, failed>>

\* C13: an event no active state handles (FOLLOWING, or REFRESH sent to the parent)
\* is dropped in every configuration: configuration, context, invocations and the
\* side effects (navigate, log, REFRESH) are unchanged.
C13_UnhandledEventDropped == [][C13_Step]_vars

\* C13 witness: FOLLOWING has just been sent while toggleFollow was in flight.
C13_Witness ==
  /\ lastEvent.type = "FOLLOWING"
  /\ lastEvent.delivered
  /\ value = toggleFollow
  /\ Live # {}

\* An eventless transition of the active state is enabled: validating has an
\* unguarded one, communityLoaded.unknown has two guarded ones.
EventlessEnabled ==
  \/ value = validating
  \/ value = unknown /\ (isAuthenticated(context) \/ isUnAuthenticated(context))

\* C14: whenever the started interpreter is ready for its next event, no eventless
\* transition of an active state is enabled, and validating is not active.
C14_EventlessResolved ==
  status # "notStarted" => (~EventlessEnabled /\ value # validating)

\* C14 witness: an AUTHENTICATED event has been taken through communityLoaded.unknown
\* into communityLoaded.authenticated in one step.
C14_Witness ==
  /\ lastEvent.type = "AUTHENTICATED"
  /\ lastEvent.delivered
  /\ lastEvent.status
  /\ value = loadFollowing
  /\ Len(promises) >= 3

\* What C15 asks of one step.
C15_Step ==
  /\ context'.slug = context.slug
  /\ context'.community # context.community =>
       /\ value = loading
       /\ lastEvent'.type = "done.invoke.queryCommunity" /\ lastEvent'.delivered
       /\ lastEvent'.entity # Null
  /\ context'.isAuthenticated # context.isAuthenticated =>
       lastEvent'.type = "AUTHENTICATED" /\ lastEvent'.delivered
  /\ context'.isFollowing # context.isFollowing =>
       /\ lastEvent'.type \in {"done.invoke.queryMyFollowing", "done.invoke.toggleFollow"}
       /\ lastEvent'.delivered
  /\ (context'.followMachineServices # context.followMachineServices
        \/ context'.activitiesMachineServices # context.activitiesMachineServices) =>
       /\ value = loading /\ Active(value', communityLoaded)
  /\ (lastEvent'.type \in {"xstate.init", "FOLLOW", "FOLLOWING", "REFRESH",
                           "error.platform.queryCommunity",
                           "error.platform.queryMyFollowing",
                           "error.platform.toggleFollow"}
        \/ ~lastEvent'.delivered) =>
       context' = context

\* C15: slug never changes; community changes only on a queryCommunity success with
\* non-null data in loading; isAuthenticated only on an AUTHENTICATED event;
\* isFollowing only on a live queryMyFollowing or toggleFollow success; the two actor
\* references only on the transition from loading to communityLoaded; a service
\* start, a failure or a dropped event leaves the context unchanged.
C15_ContextFrame == [][C15_Step]_vars

\* C15 witness: toggleFollow has failed and isFollowing has kept the value true.
C15_Witness ==
  /\ Received("error.platform.toggleFollow")
  /\ value = authError
  /\ context.isFollowing

\* C16: the follow actor and the activities actor are spawned from the entity that
\* queryCommunitySuccess stored in the same transition (the done payload, never the
\* initial undefined community), and when REFRESH is sent on a toggleFollow success
\* isFollowing already holds the new value.
C16_ActionOrder ==
  /\ Received("done.invoke.queryCommunity") /\ lastEvent.entity # Null =>
       /\ Len(spawned) = 2
       /\ \A i \in DOMAIN spawned : spawned[i].community = lastEvent.entity
  /\ \A i \in DOMAIN spawned : spawned[i].community \in Entities
  /\ Received("done.invoke.toggleFollow") =>
       /\ refreshSeen # <<>>
       /\ refreshSeen[Len(refreshSeen)] = lastEvent.following

\* C16 witness: toggleFollow resolved true while isFollowing was false, after the
\* actors were spawned for the community c2.
C16_Witness ==
  /\ Received("done.invoke.toggleFollow")
  /\ lastEvent.following
  /\ refreshSeen = <<TRUE>>
  /\ Len(spawned) = 2
  /\ spawned[1].community = [id |-> "c2"]

\* What C17 asks of one step.
C17_Step ==
  /\ (value = toggleFollow /\ lastEvent'.type = "done.invoke.toggleFollow"
        /\ lastEvent'.delivered) =>
       Len(refreshes') = Len(refreshes) + 1
  /\ refreshes' # refreshes =>
       /\ value = toggleFollow
       /\ lastEvent'.type = "done.invoke.toggleFollow" /\ lastEvent'.delivered
       /\ Len(refreshes') = Len(refreshes) + 1
       /\ \A i \in DOMAIN refreshes : refreshes'[i] = refreshes[i]
  /\ \A i \in DOMAIN refreshes' :
       /\ refreshes'[i].machine = "followers"
       /\ refreshes'[i] # context'.activitiesMachineServices

\* C17: a REFRESH is sent exactly in the steps that process a live toggleFollow
\* success, one per step, so the REFRESH events sent are as many as those successes;
\* none is sent on a failure, a stale completion, a queryMyFollowing completion or an
\* AUTHENTICATED event, and each is addressed to the follow actor, never to the
\* activities actor.
C17_RefreshCount == [][C17_Step]_vars

\* C17 witness: one toggleFollow succeeded and a later one failed: one REFRESH.
C17_Witness ==
  /\ Received("error.platform.toggleFollow")
  /\ Len(refreshes) = 1
  /\ Cardinality({p \in DOMAIN promises : promises[p].src = "toggleFollow"}) = 2

\* The actors spawned so far that run machine m.
SpawnedOf(m) == {i \in DOMAIN spawned : spawned[i].machine = m}

\* C18: the follow actor and the activities actor are each spawned at most once, on
\* the transition from loading to communityLoaded; while communityLoaded is active
\* community is an entity the query returned and both actor references are defined,
\* so toggleFollow is never called with an undefined community and REFRESH is never
\* addressed to an undefined actor.
C18_ActorOwnership ==
  /\ Cardinality(SpawnedOf("followers")) <= 1
  /\ Cardinality(SpawnedOf("activities")) <= 1
  /\ ~Active(value, communityLoaded) => spawned = <<>>
  /\ Active(value, communityLoaded) =>
       /\ context.community \in Entities
       /\ context.followMachineServices # UndefinedActor
       /\ context.activitiesMachineServices # UndefinedActor
       /\ spawned = <<context.followMachineServices, context.activitiesMachineServices>>
  /\ \A p \in DOMAIN promises :
       promises[p].src = "toggleFollow" => promises[p].arg = context.community.id
  /\ \A i \in DOMAIN refreshes : refreshes[i] # UndefinedActor

\* C18 witness: two toggleFollow calls were made and a REFRESH sent.
C18_Witness ==
  /\ value = toggleFollow
  /\ Len(refreshes) = 1
  /\ Len(spawned) = 2

\* What C19 asks of one step.
C19_Step ==
  /\ Active(value', authenticated) => context'.isAuthenticated
  /\ \A p \in Started :
       promises'[p].src \in {"queryMyFollowing", "toggleFollow"} =>
         context'.isAuthenticated
  /\ (lastEvent'.type = "AUTHENTICATED" /\ lastEvent'.delivered /\ ~lastEvent'.status) =>
       ~Active(value', authenticated)

\* C19: whenever communityLoaded.authenticated (any substate) is active,
\* isAuthenticated is true; queryMyFollowing and toggleFollow are only invoked while
\* it is true; an AUTHENTICATED event with status false always leaves the
\* authenticated subtree.
C19_AuthenticationGating == [][C19_Step]_vars

\* C19 witness: AUTHENTICATED with status false has taken the machine out of
\* communityLoaded.authenticated while toggleFollow was in flight.
C19_Witness ==
  /\ lastEvent.type = "AUTHENTICATED"
  /\ lastEvent.delivered
  /\ ~lastEvent.status
  /\ Active(value, communityLoaded)
  /\ ~Active(value, authenticated)
  /\ \E p \in pending : promises[p].src = "toggleFollow" /\ promises[p].canceled

\* The configurations the machine may rest in for ever.
Quiescent ==
  /\ Live = {}
  /\ value \in {notFound, error, unknown, unAuthenticated, loaded, authError}

\* the promise of invocation p settles, with success or with failure
Settled(p) ==
  /\ p \in pending
  /\ \/ \E data \in DoneData(promises[p].src) : Resolve(p, data)
     \/ Reject(p)

\* The interpreter is started and every started service settles.  The external
\* events stop because those that start a service are bounded by MaxInvocations and
\* the others start nothing.
Fairness ==
  /\ WF_vars(Start)
  /\ \A p \in 1..MaxInvocations : WF_vars(Settled(p))

FairSpec == Spec /\ Fairness

\* C20: if every started service settles and the external events stop, the machine
\* reaches and stays in a configuration without a live invocation, one of notFound,
\* error, communityLoaded.unknown, communityLoaded.unAuthenticated,
\* communityLoaded.authenticated.loaded and communityLoaded.authenticated.error; it
\* does not stay for ever in validating, loading, loadFollowing or toggleFollow.
C20_Quiescence == <>[]Quiescent

\* C20 witness: the machine rests in loaded after three services have settled.
C20_Witness ==
  /\ value = loaded
  /\ pending = {}
  /\ Len(promises) >= 3
  /\ Len(refreshes) >= 1

====
